---------------------------- MODULE Spec2Model ----------------------------
(***************************************************************************)
(* A model of the repository scanner CodeParser                            *)
(* (wikis/local-ai-assistant-wiki/scripts/indexing_system/code_parser.py). *)
(*                                                                         *)
(* A Python str is modelled as a sequence of one-character strings, so    *)
(* that prefixes, extensions, separators and glob patterns are computed    *)
(* character by character.  The host is "posix" (separator "/") or "nt"   *)
(* (separator "\", alternative separator "/"): os.path and fnmatch take    *)
(* their behaviour from it.                                                *)
(***************************************************************************)
EXTENDS Integers, Sequences, FiniteSets, TLC

(***************************************************************************)
(* Bounds of the model.                                                    *)
(***************************************************************************)
\* longest generated input string of the function-level specification
MaxLen == 4
\* most filesystem changes the environment makes in one behaviour
MaxFsOps == 1
\* the longest text written to the file of test_parse_file
MaxText == 2

(***************************************************************************)
(* Strings.                                                                *)
(***************************************************************************)
Hosts == {"posix", "nt"}

\* the characters the generated input strings are drawn from
Alphabet == {".", "/", "\\", "c", "C"}

RECURSIVE StringsUpTo(_)
StringsUpTo(n) ==
    IF n = 0 THEN {<< >>}
    ELSE LET shorter == StringsUpTo(n - 1)
         IN  shorter \cup {Append(s, c) : s \in {t \in shorter : Len(t) = n - 1}, c \in Alphabet}

UpperChars == <<"A", "B", "C", "D", "E", "F", "G", "H", "I", "J", "K", "L", "M", "N", "O", "P", "Q", "R", "S", "T", "U", "V", "W", "X", "Y", "Z">>
LowerChars == <<"a", "b", "c", "d", "e", "f", "g", "h", "i", "j", "k", "l", "m", "n", "o", "p", "q", "r", "s", "t", "u", "v", "w", "x", "y", "z">>

\* str.lower() on one character
LowerChar(c) ==
    IF \E i \in 1..Len(UpperChars) : UpperChars[i] = c
    THEN LowerChars[CHOOSE i \in 1..Len(UpperChars) : UpperChars[i] = c]
    ELSE c

\* str.lower()
Lower(s) == [i \in 1..Len(s) |-> LowerChar(s[i])]

\* str.startswith / str.endswith
StartsWith(s, pre) == Len(pre) <= Len(s) /\ SubSeq(s, 1, Len(pre)) = pre
EndsWith(s, suf) == Len(suf) <= Len(s) /\ SubSeq(s, Len(s) - Len(suf) + 1, Len(s)) = suf
\* s[n:]
DropFirst(s, n) == SubSeq(s, n + 1, Len(s))

\* str.rfind of a set of characters: the last index holding one of them, 0 when
\* there is none (Python's -1, shifted to 1-based indices)
RFind(s, chars) ==
    IF \E i \in 1..Len(s) : s[i] \in chars
    THEN CHOOSE i \in 1..Len(s) : s[i] \in chars /\ \A j \in (i + 1)..Len(s) : s[j] \notin chars
    ELSE 0

(***************************************************************************)
(* os.path of the host.                                                    *)
(***************************************************************************)
\* os.sep
Sep(h) == IF h = "nt" THEN "\\" ELSE "/"
\* os.sep and os.altsep
Seps(h) == IF h = "nt" THEN {"\\", "/"} ELSE {"/"}

\* os.path.normcase: the identity on posix; lower-cases and turns "/" into "\" on nt
NormCase(h, s) ==
    IF h = "nt"
    THEN [i \in 1..Len(s) |-> IF s[i] = "/" THEN "\\" ELSE LowerChar(s[i])]
    ELSE s

\* os.path.join(a, b) for a relative b without a drive
PathJoin(h, a, b) ==
    IF h = "posix" /\ Len(b) > 0 /\ b[1] = "/" THEN b
    ELSE IF Len(a) = 0 \/ a[Len(a)] \in Seps(h) THEN a \o b
    ELSE a \o <<Sep(h)>> \o b

\* os.path.splitext(p)[1]: the extension starts at the last dot of the last
\* component, unless only dots precede it there
SplitExt(h, p) ==
    LET sepIndex == RFind(p, Seps(h))
        dotIndex == RFind(p, {"."})
    IN  IF dotIndex > sepIndex
           /\ \E k \in (sepIndex + 1)..(dotIndex - 1) : p[k] # "."
        THEN SubSeq(p, dotIndex, Len(p))
        ELSE << >>

\* the components of a path, as the host's filesystem resolves it: split at the
\* separators, empty and "." components dropped
RECURSIVE Components(_, _, _, _)
Components(h, p, i, cur) ==
    LET done == IF cur = << >> \/ cur = <<".">> THEN << >> ELSE <<cur>>
    IN  IF i > Len(p) THEN done
        ELSE IF p[i] \in Seps(h) THEN done \o Components(h, p, i + 1, << >>)
        ELSE Components(h, p, i + 1, Append(cur, p[i]))

(***************************************************************************)
(* fnmatch.                                                                *)
(***************************************************************************)
\* fnmatch.fnmatchcase for patterns of literals, "?" and "*": the whole of
\* name[i..] against the whole of pat[j..]; "*" takes any run of characters,
\* the separators included
RECURSIVE MatchFrom(_, _, _, _)
MatchFrom(name, pat, i, j) ==
    IF j > Len(pat) THEN i > Len(name)
    ELSE IF pat[j] = "*"
         THEN \E k \in i..(Len(name) + 1) : MatchFrom(name, pat, k, j + 1)
    ELSE IF i > Len(name) THEN FALSE
    ELSE (pat[j] = "?" \/ pat[j] = name[i]) /\ MatchFrom(name, pat, i + 1, j + 1)

fnmatchcase(name, pat) == MatchFrom(name, pat, 1, 1)

\* fnmatch.fnmatch: both arguments go through os.path.normcase first
fnmatch(h, name, pat) == fnmatchcase(NormCase(h, name), NormCase(h, pat))

(***************************************************************************)
(* CodeParser: the constructor and the functions of one path.              *)
(***************************************************************************)
\* Python's None, where the other values are strings
None == "None"
\* Python's None, where the other values are dictionaries
NoneValue == [none |-> TRUE]

\* the built-in ignore patterns of __init__
DefaultIgnorePatterns ==
    << <<"*", ".", "g", "i", "t", "/", "*">>, <<"*", ".", "p", "y", "c">>, <<"_", "_", "p", "y", "c", "a", "c", "h", "e", "_", "_", "/", "*">>, <<"*", ".", "i", "p", "y", "n", "b", "_", "c", "h", "e", "c", "k", "p", "o", "i", "n", "t", "s", "/", "*">>,
       <<"*", ".", "v", "e", "n", "v", "/", "*">>, <<"*", "v", "e", "n", "v", "/", "*">>, <<"*", "n", "o", "d", "e", "_", "m", "o", "d", "u", "l", "e", "s", "/", "*">>, <<"*", ".", "D", "S", "_", "S", "t", "o", "r", "e">>,
       <<"*", ".", "i", "d", "e", "a", "/", "*">>, <<"*", ".", "v", "s", "c", "o", "d", "e", "/", "*">>, <<"*", ".", "p", "n", "g">>, <<"*", ".", "j", "p", "g">>, <<"*", ".", "j", "p", "e", "g">>, <<"*", ".", "g", "i", "f">>,
       <<"*", ".", "s", "v", "g">>, <<"*", ".", "i", "c", "o">>, <<"*", ".", "p", "d", "f">>, <<"*", ".", "z", "i", "p">>, <<"*", ".", "t", "a", "r", ".", "g", "z">>, <<"*", ".", "j", "a", "r">> >>

\* the ignore_patterns argument of __init__: absent (None) or a list of patterns
NoPatterns == [given |-> FALSE, value |-> << >>]
Patterns(list) == [given |-> TRUE, value |-> list]

\* __init__: self.ignore_patterns = ignore_patterns or [...]; Python's "or"
\* takes the right operand when the left one is falsy, which None and the
\* empty list both are
InitIgnorePatterns(arg) ==
    IF arg.given /\ Len(arg.value) > 0 THEN arg.value ELSE DefaultIgnorePatterns

\* language_map of get_file_language, as (extension, language) pairs
language_map ==
    { <<<<".", "p", "y">>, "python">>, <<<<".", "j", "s">>, "javascript">>, <<<<".", "t", "s">>, "typescript">>,
      <<<<".", "j", "s", "x">>, "javascript">>, <<<<".", "t", "s", "x">>, "typescript">>, <<<<".", "j", "a", "v", "a">>, "java">>,
      <<<<".", "c">>, "c">>, <<<<".", "c", "p", "p">>, "cpp">>, <<<<".", "h">>, "c">>, <<<<".", "h", "p", "p">>, "cpp">>,
      <<<<".", "c", "s">>, "csharp">>, <<<<".", "g", "o">>, "go">>, <<<<".", "r", "b">>, "ruby">>, <<<<".", "p", "h", "p">>, "php">>,
      <<<<".", "s", "w", "i", "f", "t">>, "swift">>, <<<<".", "k", "t">>, "kotlin">>, <<<<".", "r", "s">>, "rust">>,
      <<<<".", "l", "u", "a">>, "lua">>, <<<<".", "s", "h">>, "bash">>, <<<<".", "h", "t", "m", "l">>, "html">>,
      <<<<".", "c", "s", "s">>, "css">>, <<<<".", "s", "c", "s", "s">>, "scss">>, <<<<".", "s", "q", "l">>, "sql">>,
      <<<<".", "m", "d">>, "markdown">>, <<<<".", "j", "s", "o", "n">>, "json">>, <<<<".", "x", "m", "l">>, "xml">>,
      <<<<".", "y", "a", "m", "l">>, "yaml">>, <<<<".", "y", "m", "l">>, "yaml">>, <<<<".", "t", "o", "m", "l">>, "toml">> }

\* dict.get(key): the value of the key, None when the key is absent
DictGet(pairs, key) ==
    IF \E e \in pairs : e[1] = key
    THEN (CHOOSE e \in pairs : e[1] = key)[2]
    ELSE None

\* get_file_language that looks the extension up as it is written
get_file_language_NoLower(h, file_path) ==
    DictGet(language_map, SplitExt(h, file_path))

\* get_file_language: ext = os.path.splitext(file_path)[1].lower();
\* return language_map.get(ext)
get_file_language(h, file_path) ==
    DictGet(language_map, Lower(SplitExt(h, file_path)))

\* _normalize_path that strips every leading "." and "/" (str.lstrip("./"))
RECURSIVE normalize_path_LStrip(_)
normalize_path_LStrip(path) ==
    IF Len(path) > 0 /\ path[1] \in {".", "/"}
    THEN normalize_path_LStrip(DropFirst(path, 1))
    ELSE path

\* _normalize_path that tests for a leading "." only
normalize_path_DotOnly(path) ==
    IF StartsWith(path, <<".">>) THEN DropFirst(path, 2) ELSE path

\* _normalize_path: if path.startswith('./'): return path[2:]; return path
_normalize_path(path) ==
    IF StartsWith(path, <<".", "/">>) THEN DropFirst(path, 2) ELSE path

(***************************************************************************)
(* The filesystem under the repository root.                               *)
(*                                                                         *)
(* A file is named by the components of its directory below the root and   *)
(* its own name.  fs maps each file to its state: st is "ok", "noperm"     *)
(* (open is refused) or "gone" (unlinked); text tells whether its bytes     *)
(* decode as UTF-8; content is the decoded characters as they lie on disk; *)
(* written is the string that was handed to write().  A directory in       *)
(* denied cannot be listed.                                                *)
(***************************************************************************)
File(dir, name) == [dir |-> dir, name |-> name]

\* open(path, "w") and f.write(s) on host h: text mode writes every "\n" as
\* os.linesep, which is "\r\n" on Windows
RECURSIVE WriteTextFrom(_, _, _)
WriteTextFrom(h, s, i) ==
    IF i > Len(s) THEN << >>
    ELSE (IF h = "nt" /\ s[i] = "\n" THEN <<"\r", "\n">> ELSE <<s[i]>>)
         \o WriteTextFrom(h, s, i + 1)
WriteText(h, s) == WriteTextFrom(h, s, 1)

\* f.read() of a file opened with open(path, 'r'): text mode with newline=None
\* hands out every "\r\n" and every other "\r" as "\n"
RECURSIVE UniversalNewlinesFrom(_, _)
UniversalNewlinesFrom(s, i) ==
    IF i > Len(s) THEN << >>
    ELSE IF s[i] = "\r"
         THEN <<"\n">> \o UniversalNewlinesFrom(s, IF i < Len(s) /\ s[i + 1] = "\n"
                                                    THEN i + 2 ELSE i + 1)
         ELSE <<s[i]>> \o UniversalNewlinesFrom(s, i + 1)
UniversalNewlines(s) == UniversalNewlinesFrom(s, 1)

\* a readable file that chars were written to on host h
TextOn(h, chars) == [st |-> "ok", text |-> TRUE, content |-> WriteText(h, chars), written |-> chars]
\* ... when chars has no line end, so that every host writes the same
Text(chars) == TextOn("posix", chars)

\* the tree of test_get_relevant_file_paths and test_parse_repository
TreeFilter ==
    ( File(<<<<"s", "r", "c">>>>, <<"m", "a", "i", "n", ".", "p", "y">>) :> Text(<<>>) ) @@
    ( File(<<<<"s", "r", "c">>>>, <<"u", "t", "i", "l", "s", ".", "j", "s">>) :> Text(<<"u">>) ) @@
    ( File(<< >>, <<"R", "E", "A", "D", "M", "E", ".", "m", "d">>) :> Text(<<"#">>) ) @@
    ( File(<<<<"n", "o", "d", "e", "_", "m", "o", "d", "u", "l", "e", "s">>>>, <<"p", "a", "c", "k", "a", "g", "e", ".", "j", "s", "o", "n">>) :> Text(<<"{", "}">>) ) @@
    ( File(<<<<".", "g", "i", "t">>>>, <<"H", "E", "A", "D">>) :> Text(<<"r">>) ) @@
    ( File(<< >>, <<"i", "m", "a", "g", "e", ".", "p", "n", "g">>) :> Text(<<"p">>) ) @@
    ( File(<<<<"s", "r", "c">>>>, <<"s", "c", "r", "i", "p", "t", ".", "p", "y", "c">>) :> Text(<<"b">>) )

\* the tree of test_get_all_files
TreeWalk ==
    ( File(<< >>, <<"f", "i", "l", "e", "1", ".", "p", "y">>) :> Text(<<>>) ) @@
    ( File(<< >>, <<"f", "i", "l", "e", "2", ".", "j", "s">>) :> Text(<<"j">>) ) @@
    ( File(<<<<"s", "u", "b", "d", "i", "r">>>>, <<"f", "i", "l", "e", "3", ".", "p", "y">>) :> Text(<<>>) ) @@
    ( File(<<<<"s", "u", "b", "d", "i", "r">>, <<"n", "e", "s", "t", "e", "d">>>>, <<"f", "i", "l", "e", "4", ".", "t", "x", "t">>) :> Text(<<"t">>) )

Trees == {TreeFilter, TreeWalk}

\* the file of test_parse_file and its content
TestFile == File(<< >>, <<"t", "e", "s", "t", "_", "f", "i", "l", "e", ".", "p", "y">>)
TestContent == <<"d", "e", "f", " ", "t", "e", "s", "t", "_", "f", "u", "n", "c", "t", "i", "o", "n", "(", ")", ":", "\n", " ", " ", " ", " ", "r", "e", "t", "u", "r", "n", " ", "T", "r", "u", "e">>
\* the texts written to it: the content of the test and the short texts of
\* letters and line ends
TextAlphabet == {"a", "\n", "\r"}
Texts == {TestContent} \cup UNION { [1..k -> TextAlphabet] : k \in 0..MaxText }
\* the tree of test_parse_file, with text s written to its file on host h
TreeParse(h, s) == TestFile :> TextOn(h, s)

\* what a write leaves in a file: text, or bytes that are not UTF-8
FileData == { [text |-> TRUE, content |-> <<"a", "b">>], [text |-> FALSE, content |-> <<>>] }

\* the directories of a tree: the root << >> and every directory on the way to a file
Dirs(tree) == UNION { {SubSeq(f.dir, 1, k) : k \in 0..Len(f.dir)} : f \in DOMAIN tree }
SubDirs(tree, d) == {e \in Dirs(tree) : Len(e) = Len(d) + 1 /\ SubSeq(e, 1, Len(d)) = d}
\* the files a listing of directory d shows
FilesIn(tree, d) == {f \in DOMAIN tree : f.dir = d /\ tree[f].st # "gone"}
\* the orders a directory listing may come in.  The operating system fixes none;
\* explored are one order and its reverse, which is every order of up to two
\* entries and puts every two entries of a longer listing both ways round
Orders(S) ==
    LET n == Cardinality(S)
        all == {s \in [1..n -> S] : \A i, j \in 1..n : s[i] = s[j] => i = j}
        one == CHOOSE s \in all : TRUE
    IN  {one, [i \in 1..n |-> one[n + 1 - i]]}

\* os.path.relpath(root, self.repo_path) of a walked directory
RelPath(h, d) ==
    IF d = << >> THEN <<".">>
    ELSE LET RECURSIVE JoinFrom(_)
             JoinFrom(i) == IF i = Len(d) THEN d[i] ELSE d[i] \o <<Sep(h)>> \o JoinFrom(i + 1)
         IN  JoinFrom(1)

\* the paths _get_all_files gives the files of the trees, on either host
TreePaths ==
    UNION { UNION { {_normalize_path(PathJoin(h, RelPath(h, f.dir), f.name)) : f \in DOMAIN tree} :
                    tree \in Trees } : h \in Hosts }

\* the repository root the parsers are constructed with
TestRepo == <<"t", "e", "s", "t", "_", "r", "e", "p", "o">>

\* the file an absolute path names: the path is resolved below the root,
\* << >> when it leaves the root or names the root itself
Resolve(h, root, abs_path) ==
    LET Below(comps, base) ==
            IF Len(comps) > Len(base) /\ SubSeq(comps, 1, Len(base)) = base
            THEN <<File(SubSeq(comps, Len(base) + 1, Len(comps) - 1), comps[Len(comps)])>>
            ELSE << >>
    IN  Below(Components(h, abs_path, 1, << >>), Components(h, root, 1, << >>))

\* resolution depends on the host and the path alone: worked out once for the
\* paths of the files of the trees below TestRepo
AbsTreePaths == UNION { {PathJoin(h, TestRepo, p) : p \in TreePaths} : h \in Hosts }
ResolveTable == [h \in Hosts |-> [abs_path \in AbsTreePaths |-> Resolve(h, TestRepo, abs_path)]]

\* ReadText that hands out the characters as they lie on disk (newline='')
ReadText_Raw(h, root, tree, abs_path) ==
    LET Read(found) ==
            IF found # << >> /\ found[1] \in DOMAIN tree
               /\ tree[found[1]].st = "ok" /\ tree[found[1]].text
            THEN [ok |-> TRUE, content |-> tree[found[1]].content]
            ELSE [ok |-> FALSE, content |-> << >>]
    IN  Read(Resolve(h, root, abs_path))

\* open(abs_path, 'r', encoding='utf-8') and f.read(): a missing or unlinked
\* file, a refused open and bytes that do not decode all raise
ReadText(h, root, tree, abs_path) ==
    LET Read(found) ==
            IF found # << >> /\ found[1] \in DOMAIN tree
               /\ tree[found[1]].st = "ok" /\ tree[found[1]].text
            THEN [ok |-> TRUE, content |-> UniversalNewlines(tree[found[1]].content)]
            ELSE [ok |-> FALSE, content |-> << >>]
    IN  Read(IF root = TestRepo /\ abs_path \in AbsTreePaths
             THEN ResolveTable[h][abs_path]
             ELSE Resolve(h, root, abs_path))

\* parse_file without the try/except: the exception of a failed read leaves the call
parse_file_NoExcept(h, root, tree, file_path) ==
    LET Parsed(read) ==
            IF read.ok
            THEN [raised |-> FALSE,
                  value |-> [path |-> file_path, content |-> read.content,
                             language |-> get_file_language(h, file_path),
                             size |-> Len(read.content)]]
            ELSE [raised |-> TRUE, value |-> NoneValue]
    IN  Parsed(ReadText(h, root, tree, PathJoin(h, root, file_path)))

\* parse_file: the dictionary of a file that was read; a failed read is caught
\* (except Exception), reported and answered with None
parse_file(h, root, tree, file_path) ==
    LET Parsed(read) ==
            IF read.ok
            THEN [raised |-> FALSE,
                  value |-> [path |-> file_path, content |-> read.content,
                             language |-> get_file_language(h, file_path),
                             size |-> Len(read.content)]]
            ELSE [raised |-> FALSE, value |-> NoneValue]
    IN  Parsed(ReadText(h, root, tree, PathJoin(h, root, file_path)))

(***************************************************************************)
(* The walk.                                                               *)
(***************************************************************************)
\* os.walk that does not descend below the top directory
OsWalk_TopOnly(tree, noaccess, d) ==
    IF d \in noaccess THEN {<< >>}
    ELSE { <<[root |-> d, files |-> files]>> : files \in Orders(FilesIn(tree, d)) }

\* os.walk(top) top-down without onerror: the sequences of (root, files) it may
\* yield from directory d on.  A directory that cannot be listed yields nothing
\* (the error is dropped); otherwise the directory is yielded with its files in
\* the order of the listing, then each subdirectory is walked, in that order
RECURSIVE OsWalk(_, _, _), OsWalkEach(_, _, _, _)
OsWalk(tree, noaccess, d) ==
    IF d \in noaccess THEN {<< >>}
    ELSE UNION { UNION { { <<[root |-> d, files |-> files]>> \o rest :
                             rest \in OsWalkEach(tree, noaccess, dirs, 1) } :
                         dirs \in Orders(SubDirs(tree, d)) } :
                 files \in Orders(FilesIn(tree, d)) }
OsWalkEach(tree, noaccess, dirs, i) ==
    IF i > Len(dirs) THEN {<< >>}
    ELSE { a \o b : a \in OsWalk(tree, noaccess, dirs[i]),
                    b \in OsWalkEach(tree, noaccess, dirs, i + 1) }

\* the body of the loop of _get_all_files for one yield of os.walk
NormalizedPaths(h, yield) ==
    LET rel_root == RelPath(h, yield.root)
        relative_paths == [i \in 1..Len(yield.files) |-> PathJoin(h, rel_root, yield.files[i].name)]
    IN  [i \in 1..Len(relative_paths) |-> _normalize_path(relative_paths[i])]

\* _get_all_files: all_files.extend(normalized_paths) for each yield, from yield i on
RECURSIVE GetAllFilesFrom(_, _, _)
GetAllFilesFrom(h, yields, i) ==
    IF i > Len(yields) THEN << >>
    ELSE NormalizedPaths(h, yields[i]) \o GetAllFilesFrom(h, yields, i + 1)

_get_all_files(h, yields) == GetAllFilesFrom(h, yields, 1)

\* the ignore_patterns arguments the parser is constructed with
ScanPatternArgs ==
    { NoPatterns, Patterns(<< <<"*", ".", "j", "s">>, <<"*", "n", "e", "s", "t", "e", "d", "/", "*">> >>) }
PatternArgs ==
    ScanPatternArgs \cup
    { Patterns(<< >>),
      Patterns(<< <<"*", ".", "l", "o", "g">>, <<"t", "e", "m", "p", "/", "*">>, <<"*", ".", "b", "a", "k">> >>),
      Patterns(<< <<"*", ".", "c">>, <<"c", "/", "*">>, <<"*", "/", "c", "*">> >>) }

\* should_ignore with a loop that answers from the first pattern alone
ShouldIgnoreFrom_FirstOnly(h, patterns, file_path, i) ==
    IF i > Len(patterns) THEN FALSE
    ELSE fnmatch(h, file_path, patterns[i])

\* should_ignore: the loop over self.ignore_patterns from index i on, returning
\* True at the first pattern that matches and False after the last
RECURSIVE ShouldIgnoreFrom(_, _, _, _)
ShouldIgnoreFrom(h, patterns, file_path, i) ==
    IF i > Len(patterns) THEN FALSE
    ELSE IF fnmatch(h, file_path, patterns[i]) THEN TRUE
    ELSE ShouldIgnoreFrom(h, patterns, file_path, i + 1)

\* should_ignore depends on its arguments alone: its answers for the pattern
\* lists of the parsers and the paths of the files of the trees, worked out once
PatternLists == {InitIgnorePatterns(arg) : arg \in PatternArgs}
ShouldIgnoreTable ==
    [h \in Hosts |-> [patterns \in PatternLists |-> [file_path \in TreePaths |->
        ShouldIgnoreFrom(h, patterns, file_path, 1)]]]

should_ignore(h, patterns, file_path) ==
    IF file_path \in TreePaths /\ patterns \in PatternLists
    THEN ShouldIgnoreTable[h][patterns][file_path]
    ELSE ShouldIgnoreFrom(h, patterns, file_path, 1)

\* _get_relevant_file_paths that keeps the paths should_ignore accepts
get_relevant_file_paths_Inverted(h, patterns, all_files) ==
    SelectSeq(all_files, LAMBDA path : should_ignore(h, patterns, path))

\* _get_relevant_file_paths: [path for path in all_files if not self.should_ignore(path)]
_get_relevant_file_paths(h, patterns, all_files) ==
    SelectSeq(all_files, LAMBDA path : ~should_ignore(h, patterns, path))

\* "if parsed_file:" that also asks for content
Keep_NonEmpty(parsed_file) ==
    parsed_file # NoneValue /\ parsed_file.content # << >> /\ parsed_file.language # None

\* "if parsed_file:" in parse_repository: None is falsy, a dictionary with keys is truthy
Keep(parsed_file) == parsed_file # NoneValue

\* ParseLoop that hands a path whose read failed to parse_file a second time
RECURSIVE ParseLoop_Retry(_, _, _, _, _, _)
ParseLoop_Retry(h, root, tree, file_paths, i, acc) ==
    IF i > Len(file_paths) THEN acc
    ELSE LET file_path == file_paths[i]
             Seen(result) ==
                 IF result.value = NoneValue
                 THEN [acc EXCEPT !.opened = @ \o <<file_path, file_path>>,
                                  !.failed = @ \cup {file_path}]
                 ELSE [acc EXCEPT !.opened = Append(@, file_path),
                                  !.parsed_files = Append(@, result.value)]
         IN  ParseLoop_Retry(h, root, tree, file_paths, i + 1,
                             Seen(parse_file(h, root, tree, file_path)))

\* the loop of parse_repository from position i on, with parsed_files so far:
\* parsed_file = self.parse_file(file_path); if parsed_file: parsed_files.append(parsed_file).
\* opened lists the paths handed to parse_file and failed those whose read failed;
\* an exception leaving parse_file ends the loop and the call
RECURSIVE ParseLoop(_, _, _, _, _, _)
ParseLoop(h, root, tree, file_paths, i, acc) ==
    IF i > Len(file_paths) THEN acc
    ELSE LET file_path == file_paths[i]
             Seen(result) ==
                 [acc EXCEPT !.opened = Append(@, file_path),
                             !.failed = IF result.value = NoneValue
                                        THEN @ \cup {file_path} ELSE @]
             Step(result, seen) ==
                 IF result.raised THEN [seen EXCEPT !.raised = TRUE]
                 ELSE ParseLoop(h, root, tree, file_paths, i + 1,
                                IF Keep(result.value)
                                THEN [seen EXCEPT !.parsed_files = Append(@, result.value)]
                                ELSE seen)
             Body(result) == Step(result, Seen(result))
         IN  Body(parse_file(h, root, tree, file_path))

(***************************************************************************)
(* The state.                                                              *)
(***************************************************************************)
VARIABLES
    host,             \* the platform the interpreter runs on
    arg_patterns,     \* the ignore_patterns argument __init__ was called with
    repo_path,        \* self.repo_path
    ignore_patterns,  \* self.ignore_patterns
    fs,               \* the files below the root
    denied,           \* the directories below the root that cannot be listed
    nops,             \* the filesystem changes made so far
    dirty,            \* whether the filesystem changed since the running or last walk began
    pc,               \* where parse_repository stands: "idle", or "listed" before its loop
    file_paths,       \* file_paths of parse_repository, as its last run computed it
    call              \* the call that is running or returned last: its name, argument and result

vars == <<host, arg_patterns, repo_path, ignore_patterns, fs, denied, nops, dirty,
          pc, file_paths, call>>
parser == <<host, arg_patterns, repo_path, ignore_patterns>>
disk == <<fs, denied, nops, dirty>>
scan == <<pc, file_paths>>

\* what a call leaves behind: ret is its result unless it raised; for
\* parse_repository, opened lists the paths it handed to parse_file and failed
\* the paths whose read failed
Returned(op, arg, ret) ==
    [op |-> op, arg |-> arg, done |-> TRUE, ret |-> ret, raised |-> FALSE,
     opened |-> << >>, failed |-> {}]
\* a call that has not returned yet
Running(op) == [Returned(op, << >>, << >>) EXCEPT !.done = FALSE]

\* the paths the properties of section 8 and the tests name
ExamplePaths ==
    { <<".", "/", "a", "/", "b">>, <<"a", "/", "b">>, <<".", "/", "s", "o", "m", "e", "/", "f", "i", "l", "e", ".", "p", "y">>, <<"s", "o", "m", "e", "/", "f", "i", "l", "e", ".", "p", "y">>,
      <<".", "g", "i", "t", "/", "c", "o", "n", "f", "i", "g">>, <<"n", "o", "d", "e", "_", "m", "o", "d", "u", "l", "e", "s", "/", "x", ".", "j", "s", "o", "n">>, <<"n", "o", "d", "e", "_", "m", "o", "d", "u", "l", "e", "s", "/", "p", "a", "c", "k", "a", "g", "e", ".", "j", "s", "o", "n">>,
      <<"_", "_", "p", "y", "c", "a", "c", "h", "e", "_", "_", "/", "m", ".", "p", "y", "c">>, <<"_", "_", "p", "y", "c", "a", "c", "h", "e", "_", "_", "/", "m", "o", "d", "u", "l", "e", ".", "p", "y", "c">>, <<"i", "m", "a", "g", "e", ".", "p", "n", "g">>,
      <<"s", "r", "c", "/", "m", "a", "i", "n", ".", "p", "y">>, <<"R", "E", "A", "D", "M", "E", ".", "m", "d">>, <<"c", "o", "n", "f", "i", "g", ".", "j", "s", "o", "n">>,
      <<"a", "p", "p", ".", "l", "o", "g">>, <<"t", "e", "m", "p", "/", "c", "a", "c", "h", "e", ".", "t", "x", "t">>, <<"s", "r", "c", "/", "a", "p", "p", ".", "p", "y">>,
      <<"s", "c", "r", "i", "p", "t", ".", "p", "y">>, <<"a", "p", "p", ".", "j", "s">>, <<"s", "t", "y", "l", "e", "s", ".", "c", "s", "s">>, <<"m", "o", "d", "u", "l", "e", ".", "P", "Y">>, <<"c", "o", "n", "f", "i", "g", ".", "J", "S", "O", "N">>,
      <<"d", "a", "t", "a", ".", "u", "n", "k", "n", "o", "w", "n">>, <<"n", "o", "_", "e", "x", "t", "e", "n", "s", "i", "o", "n">>, <<"f", "i", "l", "e", "1", ".", "p", "y">>, <<"n", "o", "n", "_", "e", "x", "i", "s", "t", "e", "n", "t", ".", "p", "y">>,
      <<"t", "e", "s", "t", "_", "f", "i", "l", "e", ".", "p", "y">> }

\* the directories the built-in patterns are written for
ExcludedDirs ==
    { <<".", "g", "i", "t">>,
      <<"_", "_", "p", "y", "c", "a", "c", "h", "e", "_", "_">>,
      <<".", "i", "p", "y", "n", "b", "_", "c", "h", "e", "c", "k", "p", "o", "i", "n", "t", "s">>,
      <<".", "v", "e", "n", "v">>,
      <<"v", "e", "n", "v">>,
      <<"n", "o", "d", "e", "_", "m", "o", "d", "u", "l", "e", "s">>,
      <<".", "i", "d", "e", "a">>,
      <<".", "v", "s", "c", "o", "d", "e">> }

\* paths of a file x.py in such a directory: the directory at the root, one
\* directory down and two directories down
PathsBelow(d) ==
    { d \o <<"/", "x", ".", "p", "y">>, <<"s", "r", "c", "/">> \o d \o <<"/", "x", ".", "p", "y">>, <<"a", "/", "b", "/">> \o d \o <<"/", "c", "/", "x", ".", "p", "y">> }
NestedPaths == UNION { PathsBelow(d) : d \in ExcludedDirs }

\* the arguments of the calls of one path
Inputs == StringsUpTo(MaxLen) \cup ExamplePaths \cup NestedPaths

\* the state after CodeParser(repo_path, ignore_patterns) with one of the
\* arguments args, on some host, over one of the trees
Constructed(args, trees) ==
    /\ host \in Hosts
    /\ arg_patterns \in args
    /\ repo_path = TestRepo
    /\ ignore_patterns = InitIgnorePatterns(arg_patterns)
    /\ fs \in trees
    /\ denied = {}
    /\ nops = 0
    /\ dirty = FALSE
    /\ pc = "idle"
    /\ file_paths = << >>
    /\ call = Returned("__init__", << >>, << >>)

Init == Constructed(ScanPatternArgs, Trees)

(***************************************************************************)
(* The environment: other processes change the filesystem at any time.     *)
(***************************************************************************)
\* a file is deleted
Unlink(f) ==
    /\ nops < MaxFsOps
    /\ fs[f].st # "gone"
    /\ fs' = [fs EXCEPT ![f].st = "gone"]
    /\ nops' = nops + 1
    /\ dirty' = TRUE
    /\ UNCHANGED <<parser, denied, scan, call>>

\* read permission is taken from a file
Chmod(f) ==
    /\ nops < MaxFsOps
    /\ fs[f].st = "ok"
    /\ fs' = [fs EXCEPT ![f].st = "noperm"]
    /\ nops' = nops + 1
    /\ dirty' = TRUE
    /\ UNCHANGED <<parser, denied, scan, call>>

\* a file is written (created again when it was deleted)
WriteFile(f, data) ==
    /\ nops < MaxFsOps
    /\ fs[f].st # "noperm"
    /\ fs' = [fs EXCEPT ![f] = [st |-> "ok", text |-> data.text,
                               content |-> WriteText(host, data.content),
                               written |-> data.content]]
    /\ fs' # fs
    /\ nops' = nops + 1
    /\ dirty' = TRUE
    /\ UNCHANGED <<parser, denied, scan, call>>

\* read permission is taken from a directory
ChmodDir(d) ==
    /\ nops < MaxFsOps
    /\ d \notin denied
    /\ denied' = denied \cup {d}
    /\ nops' = nops + 1
    /\ dirty' = TRUE
    /\ UNCHANGED <<parser, fs, scan, call>>

(***************************************************************************)
(* parse_repository, and _get_all_files called on its own.                 *)
(***************************************************************************)
\* StartScan of a parser that keeps the list of paths of its last scan and
\* walks the tree only when it has none
StartScan_Cached ==
    /\ pc = "idle"
    /\ IF file_paths # << >> THEN file_paths' = file_paths
       ELSE \E yields \in OsWalk(fs, denied, << >>) :
               file_paths' = _get_relevant_file_paths(host, ignore_patterns,
                                                      _get_all_files(host, yields))
    /\ call' = Running("parse_repository")
    /\ dirty' = FALSE
    /\ pc' = "listed"
    /\ UNCHANGED <<parser, fs, denied, nops>>

\* parse_repository up to its loop: file_paths = self._get_relevant_file_paths(),
\* which walks the tree (_get_all_files) and filters the paths
StartScan ==
    /\ pc = "idle"
    /\ \E yields \in OsWalk(fs, denied, << >>) :
          file_paths' = _get_relevant_file_paths(host, ignore_patterns,
                                                 _get_all_files(host, yields))
    /\ call' = Running("parse_repository")
    /\ dirty' = FALSE
    /\ pc' = "listed"
    /\ UNCHANGED <<parser, fs, denied, nops>>

\* the loop of parse_repository over file_paths and its return
FinishScan ==
    /\ pc = "listed"
    /\ LET start == [parsed_files |-> << >>, opened |-> << >>, failed |-> {}, raised |-> FALSE]
           Result(end) ==
               [Returned("parse_repository", << >>, end.parsed_files) EXCEPT
                   !.raised = end.raised, !.opened = end.opened, !.failed = end.failed]
       IN  call' = Result(ParseLoop(host, repo_path, fs, file_paths, 1, start))
    /\ pc' = "idle"
    /\ UNCHANGED <<parser, disk, file_paths>>

\* _get_all_files()
CallGetAllFiles ==
    /\ pc = "idle"
    /\ \E yields \in OsWalk(fs, denied, << >>) :
          call' = Returned("_get_all_files", << >>, _get_all_files(host, yields))
    /\ dirty' = FALSE
    /\ UNCHANGED <<parser, fs, denied, nops, scan>>

Next ==
    \/ \E f \in DOMAIN fs : Unlink(f)
    \/ \E f \in DOMAIN fs : Chmod(f)
    \/ \E f \in DOMAIN fs, data \in FileData : WriteFile(f, data)
    \/ \E d \in Dirs(fs) : ChmodDir(d)
    \/ StartScan
    \/ FinishScan

Spec == Init /\ [][Next]_vars

\* the walk alone, over the trees the environment leaves
NextWalk ==
    \/ \E f \in DOMAIN fs : Unlink(f)
    \/ \E f \in DOMAIN fs : Chmod(f)
    \/ \E f \in DOMAIN fs, data \in FileData : WriteFile(f, data)
    \/ \E d \in Dirs(fs) : ChmodDir(d)
    \/ CallGetAllFiles

SpecWalk == Init /\ [][NextWalk]_vars

(***************************************************************************)
(* The calls of one path, on every input string up to MaxLen.  They leave  *)
(* the parser as it was, so a behaviour makes one call on the new parser.  *)
(***************************************************************************)
CallNormalizePath ==
    /\ call.op = "__init__"
    /\ \E p \in Inputs :
          call' = Returned("_normalize_path", p, _normalize_path(p))
    /\ UNCHANGED <<parser, disk, scan>>

CallShouldIgnore ==
    /\ call.op = "__init__"
    /\ \E p \in Inputs :
          call' = Returned("should_ignore", p, should_ignore(host, ignore_patterns, p))
    /\ UNCHANGED <<parser, disk, scan>>

CallGetFileLanguage ==
    /\ call.op = "__init__"
    /\ \E p \in Inputs :
          call' = Returned("get_file_language", p, get_file_language(host, p))
    /\ UNCHANGED <<parser, disk, scan>>

CallParseFile ==
    /\ call.op = "__init__"
    /\ \E p \in Inputs :
          LET Result(result) ==
                  [Returned("parse_file", p, result.value) EXCEPT !.raised = result.raised]
          IN  call' = Result(parse_file(host, repo_path, fs, p))
    /\ UNCHANGED <<parser, disk, scan>>

InitFn == Constructed(PatternArgs, {TreeWalk})

NextFn ==
    \/ CallNormalizePath
    \/ CallShouldIgnore
    \/ CallGetFileLanguage
    \/ CallParseFile

SpecFn == InitFn /\ [][NextFn]_vars

\* the methods of one path, called at any time between two scans
SeqInputs == { <<"f", "i", "l", "e", "1", ".", "p", "y">>, <<"f", "i", "l", "e", "2", ".", "j", "s">>, <<"i", "m", "a", "g", "e", ".", "p", "n", "g">> }

AnyShouldIgnore ==
    /\ pc = "idle"
    /\ \E p \in SeqInputs :
          call' = Returned("should_ignore", p, should_ignore(host, ignore_patterns, p))
    /\ UNCHANGED <<parser, disk, scan>>

AnyGetFileLanguage ==
    /\ pc = "idle"
    /\ \E p \in SeqInputs :
          call' = Returned("get_file_language", p, get_file_language(host, p))
    /\ UNCHANGED <<parser, disk, scan>>

AnyParseFile ==
    /\ pc = "idle"
    /\ \E p \in SeqInputs :
          LET Result(result) ==
                  [Returned("parse_file", p, result.value) EXCEPT !.raised = result.raised]
          IN  call' = Result(parse_file(host, repo_path, fs, p))
    /\ UNCHANGED <<parser, disk, scan>>

\* any sequence of calls of the parser over the tree of test_get_all_files,
\* the filesystem changing in between
InitSeq == Constructed(ScanPatternArgs, {TreeWalk})

NextSeq ==
    \/ \E f \in DOMAIN fs : Unlink(f)
    \/ \E f \in DOMAIN fs : Chmod(f)
    \/ \E f \in DOMAIN fs, data \in FileData : WriteFile(f, data)
    \/ \E d \in Dirs(fs) : ChmodDir(d)
    \/ StartScan
    \/ FinishScan
    \/ AnyShouldIgnore
    \/ AnyGetFileLanguage
    \/ AnyParseFile

SpecSeq == InitSeq /\ [][NextSeq]_vars

\* parse_file on a fresh parser over the tree of test_parse_file, whose file
\* holds any of the texts, written on the host of the parser
InitParse ==
    /\ Constructed({NoPatterns}, {TreeParse(h, s) : h \in Hosts, s \in Texts})
    /\ \E s \in Texts : fs = TreeParse(host, s)

NextParse == CallParseFile

SpecParse == InitParse /\ [][NextParse]_vars

(***************************************************************************)
(* Notions the properties are stated in.                                   *)
(***************************************************************************)
\* the elements of a sequence
Range(s) == {s[i] : i \in 1..Len(s)}

\* the files that exist, and those of them whose text can be read
Existing(tree) == {f \in DOMAIN tree : tree[f].st # "gone"}
Readable(tree) == {f \in DOMAIN tree : tree[f].st = "ok" /\ tree[f].text}

\* the root-relative path of a file with "/" between its components
RECURSIVE SlashJoin(_, _)
SlashJoin(comps, i) ==
    IF i = Len(comps) THEN comps[i] ELSE comps[i] \o <<"/">> \o SlashJoin(comps, i + 1)
SlashPath(f) == SlashJoin(Append(f.dir, f.name), 1)

\* the path under which a scan on host h names file f: its path relative to
\* the root, as the host writes it, normalized
NormalizedPath(h, f) == _normalize_path(PathJoin(h, RelPath(h, f.dir), f.name))

\* what the tests do to a returned path before they compare it:
\* path.replace('\\', '/'), then a leading './' removed
TestForm(path) ==
    LET slashed == [i \in 1..Len(path) |-> IF path[i] = "\\" THEN "/" ELSE path[i]]
    IN  IF StartsWith(slashed, <<".", "/">>) THEN DropFirst(slashed, 2) ELSE slashed

\* a parse_repository call has returned (or raised)
ScanDone == call.op = "parse_repository" /\ call.done
\* ... over a tree that stood still since the walk began and whose directories can all be listed
StaticScanDone == ScanDone /\ ~dirty /\ denied = {}

\* the meaning of a pattern made of literal text with "*" at most at its ends:
\* the name contains, ends with, starts with or equals the text
Contains(s, t) == \E k \in 0..(Len(s) - Len(t)) : SubSeq(s, k + 1, k + Len(t)) = t
StarAtEnds(pat) == \A i \in 2..(Len(pat) - 1) : pat[i] \notin {"*", "?", "["}
GlobMeaning(name, pat) ==
    LET first == Len(pat) > 0 /\ pat[1] = "*"
        last == Len(pat) > 0 /\ pat[Len(pat)] = "*"
    IN  IF pat = <<"*">> THEN TRUE
        ELSE IF first /\ last THEN Contains(name, SubSeq(pat, 2, Len(pat) - 1))
        ELSE IF first THEN EndsWith(name, DropFirst(pat, 1))
        ELSE IF last THEN StartsWith(name, SubSeq(pat, 1, Len(pat) - 1))
        ELSE name = pat

\* the language of a path, read off its end: the table entry whose extension
\* the lower-cased last component ends with, provided something other than dots
\* precedes the extension in that component
LanguageOf(h, p) ==
    LET base == DropFirst(p, RFind(p, Seps(h)))
        hits == {e \in language_map :
                    /\ EndsWith(Lower(base), e[1])
                    /\ \E k \in 1..(Len(base) - Len(e[1])) : base[k] # "."}
    IN  IF hits = {} THEN None ELSE (CHOOSE e \in hits : TRUE)[2]

(***************************************************************************)
(* The properties.                                                         *)
(***************************************************************************)
\* C1: when parse_repository returns over a tree that stood still and can be
\* listed, the paths of its records are pairwise distinct and are exactly the
\* normalized paths of the files under the root, minus the paths should_ignore
\* accepts, minus the paths whose read failed; no file is dropped for its
\* language being None or its content being empty.
C1_RecordPaths ==
    StaticScanDone =>
        LET paths == {call.ret[i].path : i \in 1..Len(call.ret)}
            all == {NormalizedPath(host, f) : f \in Existing(fs)}
            ignored == {p \in all : should_ignore(host, ignore_patterns, p)}
            unread == {NormalizedPath(host, f) : f \in Existing(fs) \ Readable(fs)}
        IN  /\ ~call.raised
            /\ Cardinality(paths) = Len(call.ret)
            /\ paths = (all \ ignored) \ unread
            /\ call.failed = unread \ ignored

\* a static scan returned a record without a language and a record without
\* content, left out a readable file that should_ignore accepts, and had a read fail
C1_Witness ==
    /\ StaticScanDone
    /\ \E i \in 1..Len(call.ret) : call.ret[i].language = None
    /\ \E i \in 1..Len(call.ret) : call.ret[i].content = << >>
    /\ \E f \in Readable(fs) : should_ignore(host, ignore_patterns, NormalizedPath(host, f))
    /\ call.failed # {}

\* C2: a failed read is a soft failure of that file: whatever files cannot be
\* opened or decoded, also when they change between the listing and the read,
\* parse_repository returns without raising, with a record for every retained
\* path whose read did not fail and none for the others.
C2_SoftFailure ==
    ScanDone =>
        /\ ~call.raised
        /\ call.opened = file_paths
        /\ \A p \in Range(file_paths) :
              (p \notin call.failed) <=> (\E i \in 1..Len(call.ret) : call.ret[i].path = p)

\* a scan returned records although a file it had listed was deleted before the
\* read and the read failed
C2_Witness ==
    /\ ScanDone
    /\ ~call.raised
    /\ Len(call.ret) > 0
    /\ \E f \in DOMAIN fs : fs[f].st = "gone" /\ NormalizedPath(host, f) \in call.failed

\* C3: a parser constructed with a caller-supplied pattern list, of any length,
\* zero included, uses exactly that list; the built-in list is used only when
\* no list is supplied.
C3_SuppliedPatternsUsed ==
    /\ arg_patterns.given => ignore_patterns = arg_patterns.value
    /\ ~arg_patterns.given => ignore_patterns = DefaultIgnorePatterns

\* C4: should_ignore(path) is true exactly when some pattern of the set matches
\* the whole path, "*" standing for any run of characters, "/" included; with
\* the built-in set it is true for .git/config, node_modules/x.json,
\* __pycache__/m.pyc and image.png and false for src/main.py, README.md and
\* config.json.
C4_ShouldIgnore ==
    call.op = "should_ignore" =>
        /\ \A i \in 1..Len(ignore_patterns) : StarAtEnds(ignore_patterns[i])
        /\ call.ret = (\E i \in 1..Len(ignore_patterns) :
                          GlobMeaning(NormCase(host, call.arg), NormCase(host, ignore_patterns[i])))
        /\ ignore_patterns = DefaultIgnorePatterns =>
              /\ call.arg \in {<<".", "g", "i", "t", "/", "c", "o", "n", "f", "i", "g">>, <<"n", "o", "d", "e", "_", "m", "o", "d", "u", "l", "e", "s", "/", "x", ".", "j", "s", "o", "n">>,
                               <<"_", "_", "p", "y", "c", "a", "c", "h", "e", "_", "_", "/", "m", ".", "p", "y", "c">>, <<"i", "m", "a", "g", "e", ".", "p", "n", "g">>} => call.ret = TRUE
              /\ call.arg \in {<<"s", "r", "c", "/", "m", "a", "i", "n", ".", "p", "y">>, <<"R", "E", "A", "D", "M", "E", ".", "m", "d">>, <<"c", "o", "n", "f", "i", "g", ".", "j", "s", "o", "n">>} => call.ret = FALSE

\* should_ignore answered True for a path only a "*" that runs over "/" matches
C4_Witness ==
    /\ call.op = "should_ignore"
    /\ ignore_patterns = DefaultIgnorePatterns
    /\ call.arg = <<"_", "_", "p", "y", "c", "a", "c", "h", "e", "_", "_", "/", "m", ".", "p", "y", "c">>
    /\ call.ret = TRUE

\* C5: over the tree src/main.py, src/utils.js, README.md,
\* node_modules/package.json, .git/HEAD, image.png, src/script.pyc, with the
\* built-in patterns, parse_repository returns exactly three records, for
\* src/main.py, src/utils.js and README.md, with the languages python,
\* javascript and markdown.
C5_FilteredScan ==
    (StaticScanDone /\ fs = TreeFilter /\ ignore_patterns = DefaultIgnorePatterns) =>
        /\ Len(call.ret) = 3
        /\ {<<TestForm(call.ret[i].path), call.ret[i].language>> : i \in 1..Len(call.ret)}
             = { <<<<"s", "r", "c", "/", "m", "a", "i", "n", ".", "p", "y">>, "python">>, <<<<"s", "r", "c", "/", "u", "t", "i", "l", "s", ".", "j", "s">>, "javascript">>,
                 <<<<"R", "E", "A", "D", "M", "E", ".", "m", "d">>, "markdown">> }

\* the scan of that tree with the built-in patterns returned
C5_Witness ==
    /\ StaticScanDone
    /\ fs = TreeFilter
    /\ ignore_patterns = DefaultIgnorePatterns
    /\ Len(call.ret) = 3

\* C6, as stated: _normalize_path(_normalize_path(p)) = _normalize_path(p) for
\* every path string p.
C6_Idempotent ==
    call.op = "_normalize_path" => _normalize_path(call.ret) = call.ret

\* C6, amended: _normalize_path(_normalize_path(p)) = _normalize_path(p) for
\* every path string p that does not begin with "././".
C6_IdempotentOnce ==
    (call.op = "_normalize_path" /\ ~StartsWith(call.arg, <<".", "/", ".", "/">>)) =>
        _normalize_path(call.ret) = call.ret

\* a leading "./" was stripped and a second application changes nothing
C6_Witness ==
    /\ call.op = "_normalize_path"
    /\ call.arg = <<".", "/", "a", "/", "b">>
    /\ call.ret = <<"a", "/", "b">>
    /\ _normalize_path(call.ret) = call.ret

\* C7: _normalize_path strips exactly one leading "./" when there is one and
\* returns every other string unchanged: "./a/b" gives "a/b", "a/b" gives
\* "a/b", "" gives "" and "./" gives "".
C7_StripsOne ==
    call.op = "_normalize_path" =>
        /\ StartsWith(call.arg, <<".", "/">>) => <<".", "/">> \o call.ret = call.arg
        /\ ~StartsWith(call.arg, <<".", "/">>) => call.ret = call.arg
        /\ call.arg = <<".", "/", "a", "/", "b">> => call.ret = <<"a", "/", "b">>
        /\ call.arg = <<"a", "/", "b">> => call.ret = <<"a", "/", "b">>
        /\ call.arg = <<>> => call.ret = <<>>
        /\ call.arg = <<".", "/">> => call.ret = <<>>

\* of two leading "./" one was stripped and one is left
C7_Witness ==
    /\ call.op = "_normalize_path"
    /\ call.arg = <<".", "/", ".", "/">>
    /\ call.ret = <<".", "/">>

\* C8: every path _get_all_files returns is root-relative, has "/" as its only
\* separator whatever the separator of the host, and has no leading "./": it is
\* the "/"-joined path of a file below the root.
C8_ForwardSlashPaths ==
    (call.op = "_get_all_files" /\ call.done) =>
        \A i \in 1..Len(call.ret) :
            /\ ~StartsWith(call.ret[i], <<".", "/">>)
            /\ \E f \in DOMAIN fs : call.ret[i] = SlashPath(f)

\* C9: the walk is complete and filters nothing: over a tree that stood still
\* and can be listed, the paths _get_all_files returns are, each once, exactly
\* the files under the root at every depth (file1.py, file2.js,
\* subdir/file3.py, subdir/nested/file4.txt over the tree of the test),
\* whatever the order of the listings and whatever the ignore patterns.
C9_WalkComplete ==
    (call.op = "_get_all_files" /\ call.done /\ ~dirty /\ denied = {}) =>
        LET found == {TestForm(call.ret[i]) : i \in 1..Len(call.ret)}
        IN  /\ Cardinality(found) = Len(call.ret)
            /\ found = {SlashPath(f) : f \in Existing(fs)}
            /\ fs = TreeWalk =>
                  found = {<<"f", "i", "l", "e", "1", ".", "p", "y">>, <<"f", "i", "l", "e", "2", ".", "j", "s">>, <<"s", "u", "b", "d", "i", "r", "/", "f", "i", "l", "e", "3", ".", "p", "y">>,
                           <<"s", "u", "b", "d", "i", "r", "/", "n", "e", "s", "t", "e", "d", "/", "f", "i", "l", "e", "4", ".", "t", "x", "t">>}

\* the walk returned the file two directories down, and a file the built-in
\* patterns would ignore
C9_Witness ==
    /\ call.op = "_get_all_files" /\ call.done /\ ~dirty /\ denied = {}
    /\ \E i \in 1..Len(call.ret) :
          /\ TestForm(call.ret[i]) \in {<<"s", "u", "b", "d", "i", "r", "/", "n", "e", "s", "t", "e", "d", "/", "f", "i", "l", "e", "4", ".", "t", "x", "t">>, <<".", "g", "i", "t", "/", "H", "E", "A", "D">>}
          /\ i < Len(call.ret)

\* C10: get_file_language(path) is the table entry of the lower-cased extension
\* of the path and None when the path has no extension or the table has no
\* entry for it; the letter case of the extension does not matter: script.py
\* and module.PY give python, config.JSON gives json, data.unknown and
\* no_extension give None.
C10_Language ==
    call.op = "get_file_language" =>
        /\ ~call.raised
        /\ call.ret = LanguageOf(host, call.arg)
        /\ call.arg \in {<<"s", "c", "r", "i", "p", "t", ".", "p", "y">>, <<"m", "o", "d", "u", "l", "e", ".", "P", "Y">>} => call.ret = "python"
        /\ call.arg = <<"c", "o", "n", "f", "i", "g", ".", "J", "S", "O", "N">> => call.ret = "json"
        /\ call.arg \in {<<"d", "a", "t", "a", ".", "u", "n", "k", "n", "o", "w", "n">>, <<"n", "o", "_", "e", "x", "t", "e", "n", "s", "i", "o", "n">>} => call.ret = None
        /\ (RFind(call.arg, {"."}) = 0) => call.ret = None

\* an upper-case extension was recognised
C10_Witness ==
    /\ call.op = "get_file_language"
    /\ call.arg = <<"m", "o", "d", "u", "l", "e", ".", "P", "Y">>
    /\ call.ret = "python"

\* the file a parse_file call was about, as a sequence of none or one
ParsedFile == Resolve(host, repo_path, PathJoin(host, repo_path, call.arg))
\* the file a path handed to parse_file names
ParsedFileOf(p) == Resolve(host, repo_path, PathJoin(host, repo_path, p))
\* a parse_file call returned a record
FileParsed == call.op = "parse_file" /\ call.done /\ call.ret # NoneValue

\* C11, as stated: for every successfully read file, the record parse_file
\* returns has the path argument as path, the text of the file exactly as it
\* was written as content, get_file_language(path) as language and the length
\* of that content string as size.
C11_Record ==
    FileParsed =>
        /\ ParsedFile # << >> /\ ParsedFile[1] \in DOMAIN fs
        /\ call.ret.path = call.arg
        /\ call.ret.content = fs[ParsedFile[1]].written
        /\ call.ret.language = get_file_language(host, call.arg)
        /\ call.ret.size = Len(call.ret.content)

\* C11, amended: for every successfully read file, the record parse_file
\* returns has the path argument as path, get_file_language(path) as language
\* and the length of its content string as size; its content has no carriage
\* return, and is the text of the file exactly as it was written when that
\* text has no carriage return (test_file.py with the content of the test
\* gives that content, python and its character count).
C11_RecordOfText ==
    FileParsed =>
        /\ ParsedFile # << >> /\ ParsedFile[1] \in DOMAIN fs
        /\ call.ret.path = call.arg
        /\ "\r" \notin Range(call.ret.content)
        /\ "\r" \notin Range(fs[ParsedFile[1]].written) =>
              call.ret.content = fs[ParsedFile[1]].written
        /\ call.ret.language = get_file_language(host, call.arg)
        /\ call.ret.size = Len(call.ret.content)
        /\ (call.arg = TestFile.name /\ fs[TestFile].written = TestContent) =>
              /\ call.ret.content = TestContent
              /\ call.ret.language = "python"
              /\ call.ret.size = Len(TestContent)

\* on Windows, where the file on disk is longer than the text written to it,
\* parse_file returned the content of the test with its character count
C11_Witness ==
    /\ FileParsed
    /\ host = "nt"
    /\ call.arg = TestFile.name
    /\ fs[TestFile].written = TestContent
    /\ Len(fs[TestFile].content) > Len(TestContent)
    /\ call.ret.content = TestContent
    /\ call.ret.size = Len(TestContent)

\* C12: when the enumeration of a directory fails (the root is missing or
\* cannot be listed, or a directory below it cannot be listed),
\* parse_repository surfaces a hard traversal error: it raises instead of
\* returning a list of records as if the whole tree had been walked.
C12_HardTraversalError ==
    (ScanDone /\ ~dirty /\ denied # {}) => call.raised

\* C13: with the built-in patterns, should_ignore is true for every path that
\* has .git, __pycache__, .ipynb_checkpoints, .venv, venv, node_modules, .idea
\* or .vscode as a directory component, at whatever depth below the root and
\* not only as its first component.
C13_ExcludedAtAnyDepth ==
    (call.op = "should_ignore" /\ ignore_patterns = DefaultIgnorePatterns) =>
        LET comps == Components(host, call.arg, 1, << >>)
        IN  (\E k \in 1..(Len(comps) - 1) : comps[k] \in ExcludedDirs) => call.ret = TRUE

\* C14: within one parse_repository call the stages run in the order walk,
\* normalize, filter, read: every path handed to parse_file is the normalized
\* path of a file of the tree for which should_ignore is false, so that an
\* ignored file is never opened; and each retained path is handed to
\* parse_file exactly once, a failed read included.
C14_StageOrder ==
    /\ (call.op = "parse_repository" /\ ~call.done) => call.opened = << >>
    /\ ScanDone =>
          /\ \A i \in 1..Len(call.opened) :
                /\ \E f \in DOMAIN fs : call.opened[i] = NormalizedPath(host, f)
                /\ ~should_ignore(host, ignore_patterns, call.opened[i])
                /\ ParsedFileOf(call.opened[i]) # << >>
                /\ ~should_ignore(host, ignore_patterns,
                                  NormalizedPath(host, ParsedFileOf(call.opened[i])[1]))
          /\ \A p \in Range(file_paths) :
                Cardinality({i \in 1..Len(call.opened) : call.opened[i] = p}) = 1
          /\ Range(call.opened) = Range(file_paths)
          /\ (~dirty /\ denied = {}) =>
                Range(call.opened) =
                    {NormalizedPath(host, f) : f \in Existing(fs)}
                    \ {p \in TreePaths : should_ignore(host, ignore_patterns, p)}

\* a scan over a still tree left an existing file unopened because
\* should_ignore accepts its path, and opened a file whose read failed, once
C14_Witness ==
    /\ StaticScanDone
    /\ \E f \in Existing(fs) :
          /\ should_ignore(host, ignore_patterns, NormalizedPath(host, f))
          /\ NormalizedPath(host, f) \notin Range(call.opened)
    /\ \E p \in call.failed :
          Cardinality({i \in 1..Len(call.opened) : call.opened[i] = p}) = 1
    /\ Len(call.opened) > Len(call.ret)

\* the records parse_repository of a parser constructed just now, with the same
\* root and the same pattern argument, returns when the walk yields yields
FreshScan(yields) ==
    LET fresh == InitIgnorePatterns(arg_patterns)
        paths == _get_relevant_file_paths(host, fresh, _get_all_files(host, yields))
        start == [parsed_files |-> << >>, opened |-> << >>, failed |-> {}, raised |-> FALSE]
    IN  ParseLoop(host, TestRepo, fs, paths, 1, start).parsed_files

\* C15: the parser carries no state between calls: after any sequence of
\* should_ignore, get_file_language, parse_file and parse_repository calls with
\* filesystem changes in between, repo_path and ignore_patterns are as they
\* were constructed, and the set of records parse_repository returns over a
\* tree that stood still since the walk began is the set a parser constructed
\* just now with the same root and patterns returns on that tree, whatever
\* the order of the listings (so that scans of an unchanged tree return the same
\* set); the content of each record is what the file holds now, not what an
\* earlier call read.
C15_Stateless ==
    /\ repo_path = TestRepo
    /\ ignore_patterns = InitIgnorePatterns(arg_patterns)
    /\ (ScanDone /\ ~dirty) =>
          /\ \A yields \in OsWalk(fs, denied, << >>) :
                Range(call.ret) = Range(FreshScan(yields))
          /\ \A i \in 1..Len(call.ret) :
                LET found == ParsedFileOf(call.ret[i].path)
                IN  /\ found # << >>
                    /\ call.ret[i].content = UniversalNewlines(fs[found[1]].content)

\* a second scan, after a parse_file call that read a file and a write that
\* changed the file, returned the new content of the file
C15_Witness ==
    /\ ScanDone /\ ~dirty
    /\ nops > 0
    /\ \E i \in 1..Len(call.ret) :
          LET found == ParsedFileOf(call.ret[i].path)
          IN  /\ fs[found[1]].written = <<"a", "b">>
              /\ call.ret[i].content = <<"a", "b">>
              /\ call.ret[i].path \in SeqInputs
=============================================================================
